---------------------------- MODULE Spec2Model ----------------------------
(* Model of the tic-tac-toe session server, src/server/index.js:           *)
(* the room registry, the join / move / reset / disconnect handlers, the   *)
(* outcome evaluator and the automated opponent (random and minimax).      *)
(* Every handler runs to completion (node's single thread), so each        *)
(* socket.on callback is one action.                                       *)
EXTENDS Integers, Sequences, FiniteSets, TLC

(***************************************************************************)
(* Bounds of the model.                                                    *)
(***************************************************************************)
\* connections that ever connect (socket ids SocketNames[1..NumSockets])
NumSockets == 2
\* room identifiers a client names (RoomNames[1..NumRooms]; the first is 'lobby')
NumRooms == 2
\* non-integer numbers in (0, 8) a client sends as payload.index: (2k-1)/2
NumFractions == 1
\* requests that change something (joins, moves and resets) in one run
MaxRequests == 3
\* in a run of whole games: joins and resets that change something
MaxGameJoins == 3
MaxResets == 1

(***************************************************************************)
(* Values.                                                                 *)
(***************************************************************************)
\* JavaScript null / undefined
Null == "null"
Undefined == "undefined"
Symbols == {"X", "O"}
Cells == 0 .. 8
NumCells == 9
BOT == "BOT"

SocketNames == <<"s1", "s2", "s3", "s4">>
RoomNames == <<"lobby", "r1", "r2", "r3">>
SocketIds == {SocketNames[i] : i \in 1 .. NumSockets}
RoomIds == {RoomNames[i] : i \in 1 .. NumRooms}

\* A payload string is its trimmed text and the white space around it; a
\* payload field that is no string has type "undefined".
Str(text) == [type |-> "string", text |-> text, padded |-> FALSE]
Padded(text) == [type |-> "string", text |-> text, padded |-> TRUE]
NoValue == [type |-> Undefined, text |-> "", padded |-> FALSE]

\* A payload index: a number num/den (den = 0 is NaN), or a value that is
\* no number.
Num(n, d) == [type |-> "number", num |-> n, den |-> d]
NaN == Num(0, 0)
NotANumber == {[type |-> "string", num |-> 4, den |-> 1],
               [type |-> Undefined, num |-> 0, den |-> 1]}

winLines == << <<0, 1, 2>>, <<3, 4, 5>>, <<6, 7, 8>>, <<0, 3, 6>>,
               <<1, 4, 7>>, <<2, 5, 8>>, <<0, 4, 8>>, <<2, 4, 6>> >>

emptyBoard == [i \in Cells |-> Null]

\* normalizeMode that answers 'pvp' whatever the value
normalizeMode_Pvp(value) == "pvp"

normalizeMode(value) == IF value = Str("bot") THEN "bot" ELSE "pvp"
normalizeDifficulty(value) == IF value = Str("hard") THEN "hard" ELSE "easy"
normalizeSymbol(value) == IF value = Str("O") THEN "O" ELSE "X"

\* sanitize: a non-string gives the fallback; a string is trimmed and gives
\* the fallback when nothing is left.
sanitize(value, fallback) ==
  IF value.type # "string" THEN fallback
  ELSE IF value.text # "" THEN value.text ELSE fallback

(***************************************************************************)
(* Outcome evaluator.                                                      *)
(***************************************************************************)
RECURSIVE getWinnerFrom(_, _)
getWinnerFrom(board, k) ==
  IF k > Len(winLines) THEN Null
  ELSE LET a == winLines[k][1]
           b == winLines[k][2]
           c == winLines[k][3]
       IN IF board[a] # Null /\ board[a] = board[b] /\ board[a] = board[c]
          THEN board[a]
          ELSE getWinnerFrom(board, k + 1)

getWinner(board) == getWinnerFrom(board, 1)

\* board.every(Boolean): array indices only
boardFull(board) == \A i \in Cells : board[i] # Null

RECURSIVE availableFrom(_, _)
availableFrom(board, i) ==
  IF i >= NumCells THEN <<>>
  ELSE (IF board[i] = Null THEN <<i>> ELSE <<>>) \o availableFrom(board, i + 1)

\* the empty cells in ascending index order
getAvailableMoves(board) == availableFrom(board, 0)

(***************************************************************************)
(* Exhaustive search of the automated opponent.                            *)
(***************************************************************************)
Other(symbol) == IF symbol = "X" THEN "O" ELSE "X"

Digit(mark) == IF mark = Null THEN 0 ELSE IF mark = "X" THEN 1 ELSE 2
MarkOf(digit) == IF digit = 0 THEN Null ELSE IF digit = 1 THEN "X" ELSE "O"
Pow3 == <<1, 3, 9, 27, 81, 243, 729, 2187, 6561>>
\* the boards of nine cells holding null, X or O
NumBoards == 3 * Pow3[NumCells]

\* position of a board in the table of searched positions (base 3, from 1)
BoardCode(board) ==
  1 + Digit(board[0]) + 3 * Digit(board[1]) + 9 * Digit(board[2])
    + 27 * Digit(board[3]) + 81 * Digit(board[4]) + 243 * Digit(board[5])
    + 729 * Digit(board[6]) + 2187 * Digit(board[7]) + 6561 * Digit(board[8])
CellOf(code, i) == MarkOf(((code - 1) \div Pow3[i + 1]) % 3)
BoardOf(code) ==
  (0 :> CellOf(code, 0)) @@ (1 :> CellOf(code, 1)) @@ (2 :> CellOf(code, 2))
  @@ (3 :> CellOf(code, 3)) @@ (4 :> CellOf(code, 4)) @@ (5 :> CellOf(code, 5))
  @@ (6 :> CellOf(code, 6)) @@ (7 :> CellOf(code, 7)) @@ (8 :> CellOf(code, 8))

\* Slot of (botSymbol, depth) in a position's row of the table
Slot(botSymbol, depth) == (IF botSymbol = "X" THEN 0 ELSE 10) + depth + 1
NumSlots == 2 * (NumCells + 1)

\* minimax is tabulated: memo[BoardCode(board)][Slot(botSymbol, depth)] is
\* the result of minimax(board, current, botSymbol, humanSymbol, depth),
\* current being botSymbol at even depth and humanSymbol at odd depth.
Searched(memo, board, botSymbol, depth) ==
  memo[BoardCode(board)][Slot(botSymbol, depth)]

\* One call of minimax, its recursive calls answered by memo. The loop over
\* the available moves writes a cell, searches, and restores the cell on the
\* board it shares with its callers; `board` of the result is that shared
\* board when the call returns.
RECURSIVE minimaxLoop(_, _, _, _, _, _, _, _)
minimaxLoop(memo, board, current, botSymbol, depth, available, k, best) ==
  IF k > Len(available)
  THEN [index |-> best.index, score |-> best.score, board |-> board]
  ELSE LET index == available[k]
           result == Searched(memo, [board EXCEPT ![index] = current],
                              botSymbol, depth + 1)
           move == [index |-> index, score |-> result.score]
           next == IF k = 1 THEN move
                   ELSE IF current = botSymbol
                        THEN (IF move.score > best.score THEN move ELSE best)
                        ELSE (IF move.score < best.score THEN move ELSE best)
       IN minimaxLoop(memo, [result.board EXCEPT ![index] = Null], current,
                      botSymbol, depth, available, k + 1, next)

minimaxCall(memo, board, current, botSymbol, humanSymbol, depth) ==
  LET winner == getWinner(board)
  IN IF winner = botSymbol
     THEN [index |-> -1, score |-> 10 - depth, board |-> board]
     ELSE IF winner = humanSymbol
     THEN [index |-> -1, score |-> depth - 10, board |-> board]
     ELSE IF boardFull(board)
     THEN [index |-> -1, score |-> 0, board |-> board]
     ELSE minimaxLoop(memo, board, current, botSymbol, depth,
                      getAvailableMoves(board), 1, [index |-> -1, score |-> 0])

\* Fractional and NaN indices a board can hold as property keys: each lets
\* one turn pass without a mark.
MaxPasses == NumFractions + 1

\* The marks of each symbol on every board, by board code
RECURSIVE CountFrom(_, _, _)
CountFrom(board, symbol, i) ==
  IF i >= NumCells THEN 0
  ELSE (IF board[i] = symbol THEN 1 ELSE 0) + CountFrom(board, symbol, i + 1)
Count(board, symbol) == CountFrom(board, symbol, 0)
CountX == [code \in 1 .. NumBoards |-> Count(BoardOf(code), "X")] \o <<>>
CountO == [code \in 1 .. NumBoards |-> Count(BoardOf(code), "O")] \o <<>>

\* The calls the server can make: the root position (depth plies back) has
\* the bot to move, and the bot's marks there exceed the human's by -1
\* (the human moved first) up to MaxPasses (turns passed without a mark).
InSearch(xs, os, botSymbol, depth) ==
  LET botMarks == (IF botSymbol = "X" THEN xs ELSE os) - ((depth + 1) \div 2)
      humanMarks == (IF botSymbol = "X" THEN os ELSE xs) - (depth \div 2)
  IN /\ botMarks >= 0
     /\ humanMarks >= 0
     /\ botMarks - humanMarks >= -1
     /\ botMarks - humanMarks <= MaxPasses

minimaxRow(memo, code) ==
  [slot \in 1 .. NumSlots |->
     LET botSymbol == IF slot <= 10 THEN "X" ELSE "O"
         depth == (slot - 1) % 10
     IN IF InSearch(CountX[code], CountO[code], botSymbol, depth)
        THEN minimaxCall(memo, BoardOf(code),
                         IF depth % 2 = 0 THEN botSymbol ELSE Other(botSymbol),
                         botSymbol, Other(botSymbol), depth)
        ELSE Undefined] \o <<>>

\* The table, filled from the full boards down to the empty one: a call on
\* a board with `filled` marks reads only boards with filled + 1 marks.
RECURSIVE minimaxLevels(_, _)
minimaxLevels(filled, memo) ==
  IF filled < 0 THEN memo
  ELSE minimaxLevels(filled - 1,
         [code \in 1 .. NumBoards |->
            IF CountX[code] + CountO[code] = filled THEN minimaxRow(memo, code)
            ELSE IF CountX[code] + CountO[code] > filled THEN memo[code]
            ELSE <<>>] \o <<>>)

minimaxTable == minimaxLevels(NumCells, <<>>)

minimax(board, current, botSymbol, humanSymbol, depth) ==
  Searched(minimaxTable, board, botSymbol, depth)

(***************************************************************************)
(* Rooms.                                                                  *)
(***************************************************************************)
\* a Map with no entries
EmptyMap == [key \in {} |-> Null]

NoPlayer == [id |-> Null, name |-> Null]
BotPlayer(difficulty) ==
  [id |-> BOT,
   name |-> IF difficulty = "hard" THEN "Computer (hard)" ELSE "Computer (easy)"]
Human(id, name) == [id |-> id, name |-> name]

\* A room. board is the nine array cells; boardKeys are the other property
\* keys set on the board array (board[1.5] = 'X' adds the key 1.5 and
\* leaves the cells alone), as <<num, den>>. sockets maps socket ids to
\* symbols.
createRoom(roomId) ==
  [id |-> roomId,
   board |-> emptyBoard,
   boardKeys |-> {},
   turn |-> "X",
   players |-> [X |-> NoPlayer, O |-> NoPlayer],
   sockets |-> EmptyMap,
   winner |-> Null,
   isDraw |-> FALSE,
   mode |-> "pvp",
   difficulty |-> "easy",
   botSymbol |-> Null]

\* resetRoom that leaves the turn where it was
resetRoom_KeepTurn(room) ==
  [room EXCEPT !.board = emptyBoard, !.boardKeys = {}, !.winner = Null,
               !.isDraw = FALSE]

\* resetRoom that leaves the marks on the board
resetRoom_KeepBoard(room) ==
  [room EXCEPT !.turn = "X", !.winner = Null, !.isDraw = FALSE]

resetRoom(room) ==
  [room EXCEPT !.board = emptyBoard, !.boardKeys = {}, !.turn = "X",
               !.winner = Null, !.isDraw = FALSE]

isBot(player) == player.id # Null /\ player.id = BOT

\* hasHuman that looks at seat X only
hasHuman_XOnly(room) == room.players.X.id # Null /\ ~isBot(room.players.X)

hasHuman(room) ==
  LET xHuman == room.players.X.id # Null /\ ~isBot(room.players.X)
      oHuman == room.players.O.id # Null /\ ~isBot(room.players.O)
  IN xHuman \/ oHuman

\* ensureBot that does not record the bot's symbol
ensureBot_NoSymbol(room, botSymbol, difficulty) ==
  LET d == normalizeDifficulty(Str(difficulty))
  IN [room EXCEPT !.mode = "bot", !.difficulty = d,
                  !.players = [[X |-> NoPlayer, O |-> NoPlayer]
                                 EXCEPT ![botSymbol] = BotPlayer(d)]]

ensureBot(room, botSymbol, difficulty) ==
  LET d == normalizeDifficulty(Str(difficulty))
  IN [room EXCEPT !.mode = "bot", !.botSymbol = botSymbol, !.difficulty = d,
                  !.players = [[X |-> NoPlayer, O |-> NoPlayer]
                                 EXCEPT ![botSymbol] = BotPlayer(d)]]

\* ensurePvp that leaves an automated occupant seated
ensurePvp_KeepBot(room) ==
  [room EXCEPT !.mode = "pvp", !.botSymbol = Null, !.difficulty = "easy"]

ensurePvp(room) ==
  [room EXCEPT !.mode = "pvp", !.botSymbol = Null, !.difficulty = "easy",
               !.players = [sym \in Symbols |->
                              IF isBot(room.players[sym]) THEN NoPlayer
                              ELSE room.players[sym]]]

getState(room) ==
  [board |-> room.board, turn |-> room.turn, players |-> room.players,
   winner |-> room.winner, isDraw |-> room.isDraw, mode |-> room.mode,
   difficulty |-> room.difficulty]

\* The board key a payload index addresses: an array cell for an integer
\* 0..8, else a property key.
IsCell(index) == index.den = 1 /\ index.num \in Cells
KeyOf(index) == <<index.num, index.den>>

\* room.board[index], as a truth value
Taken(room, index) ==
  IF IsCell(index) THEN room.board[index.num] # Null
  ELSE KeyOf(index) \in room.boardKeys

\* applyMove that flips the turn also when the move decides the game
applyMove_AlwaysFlip(room, symbol, index) ==
  LET board == IF IsCell(index) THEN [room.board EXCEPT ![index.num] = symbol]
               ELSE room.board
      keys == IF IsCell(index) THEN room.boardKeys
              ELSE room.boardKeys \cup {KeyOf(index)}
      winner == getWinner(board)
  IN [room EXCEPT !.board = board, !.boardKeys = keys, !.winner = winner,
                  !.isDraw = winner = Null /\ boardFull(board),
                  !.turn = IF room.turn = "X" THEN "O" ELSE "X"]

\* applyMove that evaluates the board before it writes the mark
applyMove_StaleOutcome(room, symbol, index) ==
  LET board == IF IsCell(index) THEN [room.board EXCEPT ![index.num] = symbol]
               ELSE room.board
      keys == IF IsCell(index) THEN room.boardKeys
              ELSE room.boardKeys \cup {KeyOf(index)}
      winner == getWinner(room.board)
      isDraw == winner = Null /\ boardFull(room.board)
  IN [room EXCEPT !.board = board, !.boardKeys = keys, !.winner = winner,
                  !.isDraw = isDraw,
                  !.turn = IF winner = Null /\ ~isDraw
                           THEN (IF room.turn = "X" THEN "O" ELSE "X")
                           ELSE room.turn]

applyMove(room, symbol, index) ==
  LET board == IF IsCell(index) THEN [room.board EXCEPT ![index.num] = symbol]
               ELSE room.board
      keys == IF IsCell(index) THEN room.boardKeys
              ELSE room.boardKeys \cup {KeyOf(index)}
      winner == getWinner(board)
      isDraw == winner = Null /\ boardFull(board)
  IN [room EXCEPT !.board = board, !.boardKeys = keys, !.winner = winner,
                  !.isDraw = isDraw,
                  !.turn = IF winner = Null /\ ~isDraw
                           THEN (IF room.turn = "X" THEN "O" ELSE "X")
                           ELSE room.turn]

\* getBotMove whose hard bot takes the first available cell
getBotMove_First(room) ==
  LET moves == getAvailableMoves(room.board)
  IN IF Len(moves) = 0 THEN {}
     ELSE IF room.difficulty = "easy"
     THEN {[index |-> moves[k], board |-> room.board] : k \in 1 .. Len(moves)}
     ELSE {[index |-> moves[1], board |-> room.board]}

\* getBotMove that returns the position of its choice in the list of the
\* available moves (from 0) instead of the cell at that position
getBotMove_Position(room) ==
  LET moves == getAvailableMoves(room.board)
  IN IF Len(moves) = 0 THEN {}
     ELSE IF room.difficulty = "easy"
     THEN {[index |-> k - 1, board |-> room.board] : k \in 1 .. Len(moves)}
     ELSE LET found == minimax(room.board, room.botSymbol, room.botSymbol,
                               Other(room.botSymbol), 0)
              k == CHOOSE j \in 1 .. Len(moves) : moves[j] = found.index
          IN {[index |-> k - 1, board |-> found.board]}

\* getBotMove: the cells the bot may choose (easy: any available cell,
\* Math.random picks; hard: the one minimax returns) and the board each
\* choice leaves (minimax writes and restores room.board in place).
getBotMove(room) ==
  LET moves == getAvailableMoves(room.board)
  IN IF Len(moves) = 0 THEN {}
     ELSE IF room.difficulty = "easy"
     THEN {[index |-> moves[k], board |-> room.board] : k \in 1 .. Len(moves)}
     ELSE LET botSymbol == room.botSymbol
              humanSymbol == IF botSymbol = "X" THEN "O" ELSE "X"
              found == minimax(room.board, botSymbol, botSymbol, humanSymbol, 0)
          IN {[index |-> found.index, board |-> found.board]}

\* maybeBotMove that never moves
maybeBotMove_Never(room) == {[room |-> room, moved |-> FALSE]}

\* maybeBotMove: the rooms it can leave and whether it emitted the state
\* (moved). One outcome unless the easy bot chooses at random.
maybeBotMove(room) ==
  IF room.mode # "bot" \/ room.botSymbol # room.turn
  THEN {[room |-> room, moved |-> FALSE]}
  ELSE IF room.winner # Null \/ room.isDraw
  THEN {[room |-> room, moved |-> FALSE]}
  ELSE IF getBotMove(room) = {}
  THEN {[room |-> room, moved |-> FALSE]}
  ELSE {[room |-> applyMove([room EXCEPT !.board = choice.board],
                            room.botSymbol, Num(choice.index, 1)),
         moved |-> TRUE] : choice \in getBotMove(room)}

(***************************************************************************)
(* State.                                                                  *)
(***************************************************************************)
VARIABLES
  rooms,      \* the registry: room id -> room, for the rooms created so far
  sockets,    \* socket id -> its status and socket.data
  shown,      \* room id -> the last game:state snapshot broadcast to it
  handled     \* accepted requests so far, by kind

vars == <<rooms, sockets, shown, handled>>

NewSocket == [status |-> "new", roomId |-> Undefined, symbol |-> Undefined,
              name |-> Undefined]

Has(registry, roomId) == roomId \in DOMAIN registry
Put(registry, roomId, room) ==
  [r \in DOMAIN registry \cup {roomId} |->
     IF r = roomId THEN room ELSE registry[r]]

\* What a handler leaves and sends: the registry and the sockets' data after
\* it, the game:error it sent (error, to the sockets errorTo), its ack, and
\* the room ids of its emitState calls in order (emits); shown is the state
\* last broadcast to each room.
\* The error sent with io.emit, to every connection
Refused_ToAll(registry, s, message) ==
  [rooms |-> registry, sockets |-> sockets, shown |-> shown,
   error |-> message,
   errorTo |-> {t \in SocketIds : sockets[t].status = "connected"},
   symbol |-> Null, emits |-> <<>>]

\* socket.emit('game:error', { message }) and return: nothing else changes
Refused(registry, s, message) ==
  [rooms |-> registry, sockets |-> sockets, shown |-> shown,
   error |-> message, errorTo |-> {s}, symbol |-> Null, emits |-> <<>>]

Init ==
  /\ rooms = EmptyMap
  /\ sockets = [s \in SocketIds |-> NewSocket]
  /\ shown = EmptyMap
  /\ handled = [join |-> 0, move |-> 0, reset |-> 0]

(***************************************************************************)
(* Payloads.                                                               *)
(***************************************************************************)
RoomIdInputs == {Str(r) : r \in RoomIds} \cup {NoValue, Padded("")}

JoinPayload(roomId, name, mode, difficulty, symbol) ==
  [roomId |-> roomId, name |-> name, mode |-> mode,
   difficulty |-> difficulty, symbol |-> symbol]

\* PvP joins of every room id, by mode or by default; joins without a name;
\* a PvP join that names a difficulty and a symbol; BotMatch joins of every
\* difficulty and symbol, and with both left out; a BotMatch join without a
\* name
JoinPayloads ==
  {JoinPayload(r, Str("Ann"), m, NoValue, NoValue) :
     r \in RoomIdInputs, m \in {Str("pvp"), NoValue}}
  \cup {JoinPayload(Str("lobby"), n, Str("pvp"), NoValue, NoValue) :
     n \in {Padded(""), NoValue}}
  \cup {JoinPayload(Str(r), Padded("Ann"), Str("pvp"), Str("hard"), Str("O")) :
     r \in RoomIds}
  \cup {JoinPayload(r, Str("Ann"), Str("bot"), d, sym) :
     r \in {Str(q) : q \in RoomIds} \cup {NoValue},
     d \in {Str("hard"), Str("easy")}, sym \in {Str("X"), Str("O")}}
  \cup {JoinPayload(Str(r), Str("Ann"), Str("bot"), NoValue, NoValue) :
     r \in RoomIds}
  \cup {JoinPayload(Str("lobby"), Padded(""), Str("bot"), Str("hard"), Str("O"))}

Fractions == {Num(2 * k - 1, 2) : k \in 1 .. NumFractions}
IndexInputs ==
  {Num(n, 1) : n \in -1 .. 9} \cup Fractions
  \cup {NaN, Num(-1, 2), Num(17, 2)} \cup NotANumber

MovePayload(roomId, index) == [roomId |-> roomId, index |-> index]
MovePayloads ==
  {MovePayload(r, i) :
     r \in {Str(q) : q \in RoomIds} \cup {NoValue}, i \in IndexInputs}
  \cup {MovePayload(Padded(""), Num(4, 1))}
ResetPayloads == {[roomId |-> r] : r \in RoomIdInputs}

\* index < 0 and index > 8: comparisons with NaN are false
Below0(index) == index.den # 0 /\ index.num < 0
Above8(index) == index.den # 0 /\ index.num > 8 * index.den

(***************************************************************************)
(* Handlers.                                                               *)
(***************************************************************************)
\* The seat taken always X, whatever symbol was found free
Seat_AlwaysX(room, s, symbol, name) ==
  [room EXCEPT !.players.X = Human(s, name),
               !.sockets = [t \in DOMAIN room.sockets \cup {s} |->
                              IF t = s THEN "X" ELSE room.sockets[t]]]

\* The seat taken by a successful join: room.players and room.sockets
Seat(room, s, symbol, name) ==
  [room EXCEPT !.players[symbol] = Human(s, name),
               !.sockets = [t \in DOMAIN room.sockets \cup {s} |->
                              IF t = s THEN symbol ELSE room.sockets[t]]]

\* socket.data after a successful join
Bind(s, roomId, symbol, name) ==
  [sockets EXCEPT ![s].roomId = roomId, ![s].symbol = symbol, ![s].name = name]

\* A handler's end without its emitState calls
Done_NoBroadcast(registry, bound, roomId, bot, symbol) ==
  [rooms |-> Put(registry, roomId, bot.room), sockets |-> bound,
   shown |-> shown, error |-> Null, errorTo |-> {}, symbol |-> symbol,
   emits |-> <<>>]

\* A handler's end after its last change of room roomId: emitState(roomId)
\* once, and once more after a bot move
Done(registry, bound, roomId, bot, symbol) ==
  [rooms |-> Put(registry, roomId, bot.room), sockets |-> bound,
   shown |-> Put(shown, roomId, getState(bot.room)),
   error |-> Null, errorTo |-> {}, symbol |-> symbol,
   emits |-> IF bot.moved THEN <<roomId, roomId>> ELSE <<roomId>>]

\* A join handler that tests no seat and gives every named requester seat X
joinOutcomes_TakeX(s, payload) ==
  LET roomId == sanitize(payload.roomId, "lobby")
      name == sanitize(payload.name, "")
      registry == IF Has(rooms, roomId) THEN rooms
                  ELSE Put(rooms, roomId, createRoom(roomId))
  IN IF name = ""
     THEN {Refused(rooms, s, "Name is required.")}
     ELSE {Done(registry, Bind(s, roomId, "X", name), roomId,
                [room |-> Seat(registry[roomId], s, "X", name),
                 moved |-> FALSE], "X")}

\* socket.on('game:join'): the ways the handler can end
joinOutcomes(s, payload) ==
  LET roomId == sanitize(payload.roomId, "lobby")
      name == sanitize(payload.name, "")
      mode == normalizeMode(payload.mode)
      difficulty == normalizeDifficulty(payload.difficulty)
      preferredSymbol == normalizeSymbol(payload.symbol)
      \* getRoom
      registry == IF Has(rooms, roomId) THEN rooms
                  ELSE Put(rooms, roomId, createRoom(roomId))
      room == registry[roomId]
      humanPresent == hasHuman(room)
      botSymbol == IF preferredSymbol = "X" THEN "O" ELSE "X"
      ready == IF ~humanPresent
               THEN (IF mode = "bot"
                     THEN ensureBot(resetRoom(room), botSymbol, difficulty)
                     ELSE ensurePvp(resetRoom(room)))
               ELSE room
      symbol == IF ready.players.X.id = Null THEN "X"
                ELSE IF ready.players.O.id = Null THEN "O"
                ELSE Null
  IN IF name = ""
     THEN {Refused(rooms, s, "Name is required.")}
     ELSE IF humanPresent /\ room.mode # mode
     THEN {Refused(registry, s, "Room mode does not match.")}
     ELSE IF mode = "bot"
     THEN IF humanPresent
          THEN {Refused(registry, s, "Room is full.")}
          ELSE {Done(registry, Bind(s, roomId, preferredSymbol, name), roomId,
                     bot, preferredSymbol) :
                  bot \in maybeBotMove(Seat(ready, s, preferredSymbol, name))}
     ELSE IF symbol = Null
     THEN {Refused(registry, s, "Room is full.")}
     ELSE {Done(registry, Bind(s, roomId, symbol, name), roomId,
                [room |-> Seat(ready, s, symbol, name), moved |-> FALSE],
                symbol)}

\* the move handler's test of a finished game, left out
Finished_Never(room) == FALSE

\* the move handler's test of a finished game: room.winner || room.isDraw
Finished(room) == room.winner # Null \/ room.isDraw

\* The room a move or reset request acts on: payload.roomId when it is a
\* non-blank string, else socket.data.roomId
TargetOf(s, payload) == sanitize(payload.roomId, sockets[s].roomId)

\* socket.on('game:move'): the ways the handler can end
moveOutcomes(s, payload) ==
  LET roomId == TargetOf(s, payload)
      index == payload.index
      symbol == sockets[s].symbol
  IN IF ~Has(rooms, roomId) \/ symbol = Undefined
     THEN {Refused(rooms, s, "Join a room first.")}
     ELSE IF rooms[roomId].turn # symbol
     THEN {Refused(rooms, s, "Not your turn.")}
     ELSE IF Finished(rooms[roomId])
     THEN {Refused(rooms, s, "Game is finished.")}
     ELSE IF index.type # "number" \/ Below0(index) \/ Above8(index)
     THEN {Refused(rooms, s, "Invalid move.")}
     ELSE IF Taken(rooms[roomId], index)
     THEN {Refused(rooms, s, "Cell already taken.")}
     ELSE LET moved == applyMove(rooms[roomId], symbol, index)
          IN {Done(rooms, sockets, roomId, bot, Null) :
                bot \in (IF moved.mode = "bot" THEN maybeBotMove(moved)
                         ELSE {[room |-> moved, moved |-> FALSE]})}

\* socket.on('game:reset'): the ways the handler can end
resetOutcomes(s, payload) ==
  LET roomId == TargetOf(s, payload)
  IN IF ~Has(rooms, roomId) \/ sockets[s].symbol = Undefined
     THEN {Refused(rooms, s, "Join a room first.")}
     ELSE {Done(rooms, sockets, roomId, bot, Null) :
             bot \in maybeBotMove(resetRoom(rooms[roomId]))}

\* The room after the leaving socket's seat is cleared
Unseat(room, s) ==
  IF s \in DOMAIN room.sockets
  THEN LET symbol == room.sockets[s]
       IN [room EXCEPT
             !.players[symbol] =
                IF room.players[symbol].id # Null /\ ~isBot(room.players[symbol])
                THEN NoPlayer ELSE room.players[symbol],
             !.sockets = [t \in DOMAIN room.sockets \ {s} |-> room.sockets[t]]]
  ELSE room

\* socket.on('disconnect'): the way the handler ends
disconnectOutcome(s) ==
  LET roomId == sockets[s].roomId
      closed == [sockets EXCEPT ![s].status = "closed"]
      left == Unseat(rooms[roomId], s)
      after == IF ~hasHuman(left) THEN resetRoom(left) ELSE left
  IN IF ~Has(rooms, roomId)
     THEN [rooms |-> rooms, sockets |-> closed, shown |-> shown,
           error |-> Null, errorTo |-> {}, symbol |-> Null, emits |-> <<>>]
     ELSE Done(rooms, closed, roomId, [room |-> after, moved |-> FALSE], Null)

\* The state after a handler
Becomes(outcome) ==
  /\ rooms' = outcome.rooms
  /\ sockets' = outcome.sockets
  /\ shown' = outcome.shown

Connected(s) == sockets[s].status = "connected"

\* io.on('connection'): a socket with empty data; ids are handed out in order
Connect(s) ==
  /\ sockets[s].status = "new"
  /\ \A k \in 1 .. NumSockets :
       SocketNames[k] = s =>
         \A j \in 1 .. k - 1 : sockets[SocketNames[j]].status # "new"
  /\ sockets' = [sockets EXCEPT ![s].status = "connected"]
  /\ UNCHANGED <<rooms, shown>>

Join(s, payload) ==
  /\ Connected(s)
  /\ \E outcome \in joinOutcomes(s, payload) : Becomes(outcome)

Move(s, payload) ==
  /\ Connected(s)
  /\ \E outcome \in moveOutcomes(s, payload) : Becomes(outcome)

Reset(s, payload) ==
  /\ Connected(s)
  /\ \E outcome \in resetOutcomes(s, payload) : Becomes(outcome)

Disconnect(s) ==
  /\ Connected(s)
  /\ Becomes(disconnectOutcome(s))

\* A request of the kind is counted when it changed a room or a socket
Counted(kind) ==
  handled' = IF rooms' = rooms /\ sockets' = sockets THEN handled
             ELSE [handled EXCEPT ![kind] = @ + 1]

Total == handled.join + handled.move + handled.reset

\* Any requests of any connection, a few in all
Next ==
  \E s \in SocketIds :
    \/ Connect(s) /\ UNCHANGED handled
    \/ /\ Total < MaxRequests
       /\ \E payload \in JoinPayloads : Join(s, payload)
       /\ Counted("join")
    \/ /\ Total < MaxRequests
       /\ \E payload \in MovePayloads : Move(s, payload)
       /\ Counted("move")
    \/ /\ Total < MaxRequests
       /\ \E payload \in ResetPayloads : Reset(s, payload)
       /\ Counted("reset")
    \/ Disconnect(s) /\ UNCHANGED handled

Spec == Init /\ [][Next]_vars

\* Whole games against the hard bot. The lobby is the BotMatch room, the
\* other rooms are PvP rooms, and every move and reset names the lobby, also
\* those of connections seated elsewhere. Moves are not counted: a game ends
\* by itself.
GameJoinPayloads ==
  {JoinPayload(NoValue, Str("Ann"), Str("bot"), Str("hard"), sym) :
     sym \in {Str("X"), Str("O")}}
  \cup {JoinPayload(Str(r), Str("Ann"), Str("pvp"), NoValue, NoValue) :
     r \in RoomIds \ {"lobby"}}
GameMovePayloads == {MovePayload(Str("lobby"), i) : i \in IndexInputs}
GameResetPayloads == {[roomId |-> Str("lobby")]}

NextGame ==
  \E s \in SocketIds :
    \/ Connect(s) /\ UNCHANGED handled
    \/ /\ handled.join < MaxGameJoins
       /\ \E payload \in GameJoinPayloads : Join(s, payload)
       /\ Counted("join")
    \/ /\ \E payload \in GameMovePayloads : Move(s, payload)
       /\ UNCHANGED handled
    \/ /\ handled.reset < MaxResets
       /\ \E payload \in GameResetPayloads : Reset(s, payload)
       /\ Counted("reset")
    \/ Disconnect(s) /\ UNCHANGED handled

SpecGame == Init /\ [][NextGame]_vars

\* Whole games between people: PvP joins of the lobby, and the moves and
\* resets of its members, which name no room and no fractional index.
\* Moves are not counted.
PvpJoinPayloads ==
  {JoinPayload(NoValue, Str("Ann"), m, NoValue, NoValue) :
     m \in {Str("pvp"), NoValue}}
PvpMovePayloads ==
  {MovePayload(NoValue, i) : i \in IndexInputs \ Fractions}
PvpResetPayloads == {[roomId |-> NoValue]}

NextPvp ==
  \E s \in SocketIds :
    \/ Connect(s) /\ UNCHANGED handled
    \/ /\ handled.join < MaxGameJoins
       /\ \E payload \in PvpJoinPayloads : Join(s, payload)
       /\ Counted("join")
    \/ /\ \E payload \in PvpMovePayloads : Move(s, payload)
       /\ UNCHANGED handled
    \/ /\ handled.reset < MaxResets
       /\ \E payload \in PvpResetPayloads : Reset(s, payload)
       /\ Counted("reset")
    \/ Disconnect(s) /\ UNCHANGED handled

SpecPvp == Init /\ [][NextPvp]_vars

(***************************************************************************)
(* Properties.                                                             *)
(***************************************************************************)
\* the connections that can send a request
Requesters == {s \in SocketIds : sockets[s].status = "connected"}

\* a person holds the seat
HumanIn(room, symbol) == room.players[symbol].id \notin {Null, BOT}
NoHumanIn(room) == \A symbol \in Symbols : ~HumanIn(room, symbol)

\* the marks on a board
Marks(board) == {i \in Cells : board[i] # Null}

\* the game of a room is won or drawn
Over(room) == room.winner # Null \/ room.isDraw

\* a game not yet played: no mark, or the one opening mark of a bot seated X
Fresh(room) ==
  /\ room.winner = Null
  /\ ~room.isDraw
  /\ room.boardKeys = {}
  /\ \/ room.board = emptyBoard /\ room.turn = "X"
     \/ /\ room.mode = "bot"
        /\ room.botSymbol = "X"
        /\ room.turn = "O"
        /\ \E i \in Cells : room.board = [emptyBoard EXCEPT ![i] = "X"]

\* The step is a disconnect of s
Leaves(s) == sockets[s].status = "connected" /\ sockets'[s].status = "closed"

\* The step fully resets room r: an accepted reset request, an accepted join
\* while no person is seated, or a disconnect that leaves no person seated
FullReset(r) ==
  \/ handled'.reset > handled.reset
  \/ handled'.join > handled.join /\ NoHumanIn(rooms[r])
  \/ \E s \in SocketIds : Leaves(s) /\ NoHumanIn(rooms'[r])

\* C1: in a BotMatch room of difficulty hard the human never wins: whenever
\* winner is set, it is the room's botSymbol.
C1_HardBotNeverLoses ==
  \A r \in DOMAIN rooms :
    (rooms[r].mode = "bot" /\ rooms[r].difficulty = "hard"
       /\ rooms[r].winner # Null)
      => rooms[r].winner = rooms[r].botSymbol

\* a hard BotMatch room whose human has lost
C1_BotWon ==
  \E r \in DOMAIN rooms :
    /\ rooms[r].mode = "bot"
    /\ rooms[r].difficulty = "hard"
    /\ rooms[r].winner = rooms[r].botSymbol
    /\ ~NoHumanIn(rooms[r])

\* C2: a move or reset request of a connection changes no room but the one
\* of its binding (socket.data.roomId), whatever roomId its payload carries.
C2_OnlyBoundRoomChanges ==
  \A s \in Requesters :
    \A r \in DOMAIN rooms :
      r # sockets[s].roomId =>
        /\ \A payload \in MovePayloads :
             \A outcome \in moveOutcomes(s, payload) :
               outcome.rooms[r] = rooms[r]
        /\ \A payload \in ResetPayloads :
             \A outcome \in resetOutcomes(s, payload) :
               outcome.rooms[r] = rooms[r]

\* the index is one of the nine cells
CellIndex(index) ==
  index.type = "number" /\ index.den = 1 /\ index.num >= 0 /\ index.num <= 8

\* C3: a move is accepted only with an index that is one of the cells 0..8.
\* With any other index the request is refused and changes no room, with
\* "Invalid move." when it is the requester's turn in a game not finished;
\* an accepted move writes the requester's symbol to a cell that was empty.
C3_OnlyCellsAccepted ==
  \A s \in Requesters :
    \A payload \in MovePayloads :
      \A outcome \in moveOutcomes(s, payload) :
        LET roomId == TargetOf(s, payload)
            index == payload.index
        IN /\ ~CellIndex(index) =>
                /\ outcome.error # Null
                /\ outcome.rooms = rooms
                /\ (/\ Has(rooms, roomId)
                    /\ rooms[roomId].turn = sockets[s].symbol
                    /\ ~Over(rooms[roomId])) => outcome.error = "Invalid move."
           /\ outcome.error = Null =>
                /\ CellIndex(index)
                /\ rooms[roomId].board[index.num] = Null
                /\ outcome.rooms[roomId].board[index.num] = sockets[s].symbol

\* the win-lines a board has occupied by one symbol, and the first of them
LinesOf(board) ==
  {k \in 1 .. Len(winLines) :
     /\ board[winLines[k][1]] \in Symbols
     /\ \A j \in 2 .. 3 : board[winLines[k][j]] = board[winLines[k][1]]}
FirstLineOf(board) ==
  CHOOSE k \in LinesOf(board) : \A j \in LinesOf(board) : k <= j
WinnerOf(board) ==
  IF LinesOf(board) = {} THEN Null ELSE board[winLines[FirstLineOf(board)][1]]

\* C4: in every room the outcome agrees with the board: winner is the symbol
\* of the first occupied win-line (null if there is none), isDraw is true
\* exactly when there is no winner and the nine cells are filled, and winner
\* and isDraw are never both set.
C4_OutcomeAgreesWithBoard ==
  \A r \in DOMAIN rooms :
    /\ rooms[r].winner = WinnerOf(rooms[r].board)
    /\ rooms[r].isDraw <=> (WinnerOf(rooms[r].board) = Null
                            /\ Marks(rooms[r].board) = Cells)
    /\ ~(rooms[r].winner # Null /\ rooms[r].isDraw)

\* a game won by O on a board that X marked too
C4_WonByO ==
  \E r \in DOMAIN rooms :
    /\ rooms[r].winner = "O"
    /\ \E i \in Cells : rooms[r].board[i] = "X"

\* the BotMatch joins with a name, and what they ask for
BotJoins ==
  {payload \in JoinPayloads :
     payload.mode = Str("bot") /\ sanitize(payload.name, "") # ""}
Asked(payload) == sanitize(payload.roomId, "lobby")
Preferred(payload) == IF payload.symbol = Str("O") THEN "O" ELSE "X"

\* a BotMatch room where a person is seated
BotRoomWithHuman(r) ==
  Has(rooms, r) /\ rooms[r].mode = "bot" /\ ~NoHumanIn(rooms[r])

\* C5 as stated: in a BotMatch room with a person seated, a further BotMatch
\* join is refused with "Room is full." exactly when a person holds the seat
\* it prefers, and is given that seat otherwise.
C5_RefusedWhenSeatTaken ==
  \A s \in Requesters :
    \A payload \in BotJoins :
      BotRoomWithHuman(Asked(payload)) =>
        \A outcome \in joinOutcomes(s, payload) :
          /\ outcome.error = "Room is full."
               <=> HumanIn(rooms[Asked(payload)], Preferred(payload))
          /\ ~HumanIn(rooms[Asked(payload)], Preferred(payload))
               => outcome.symbol = Preferred(payload)

\* C5: in a BotMatch room with a person seated, every further BotMatch join
\* is refused with "Room is full.", whichever symbol it prefers, and changes
\* no room and no binding.
C5_RefusedWhenHumanPresent ==
  \A s \in Requesters :
    \A payload \in BotJoins :
      BotRoomWithHuman(Asked(payload)) =>
        \A outcome \in joinOutcomes(s, payload) :
          /\ outcome.error = "Room is full."
          /\ outcome.symbol = Null
          /\ outcome.rooms = rooms
          /\ outcome.sockets = sockets

\* a BotMatch join that prefers the bot's seat of a room with a person in
\* the other seat
C5_BotSeatAsked ==
  \E s \in Requesters :
    \E payload \in BotJoins :
      /\ BotRoomWithHuman(Asked(payload))
      /\ rooms[Asked(payload)].players[Preferred(payload)].id = BOT
      /\ s \notin DOMAIN rooms[Asked(payload)].sockets

\* the board, turn and outcome of room a are those of room b
SameGame(a, b) ==
  /\ a.board = b.board
  /\ a.boardKeys = b.boardKeys
  /\ a.turn = b.turn
  /\ a.winner = b.winner
  /\ a.isDraw = b.isDraw

\* C6: once the game of a room is won or drawn, every move request on the
\* room is refused and changes nothing, and no join of the room, no reset
\* request on it and no disconnect changes its board, turn or outcome but
\* one that fully resets it and starts a fresh game: a reset request, a join
\* while no person is seated, the disconnect that leaves no person seated.
C6_FinishedUntilReset ==
  \A r \in DOMAIN rooms :
    Over(rooms[r]) =>
      \A s \in Requesters :
        /\ \A payload \in MovePayloads :
             TargetOf(s, payload) = r =>
               \A outcome \in moveOutcomes(s, payload) :
                 outcome.error # Null /\ outcome.rooms = rooms
        /\ \A payload \in JoinPayloads :
             Asked(payload) = r =>
               \A outcome \in joinOutcomes(s, payload) :
                 \/ SameGame(outcome.rooms[r], rooms[r])
                 \/ NoHumanIn(rooms[r]) /\ Fresh(outcome.rooms[r])
        /\ \A payload \in ResetPayloads :
             TargetOf(s, payload) = r =>
               \A outcome \in resetOutcomes(s, payload) :
                 \/ outcome.error # Null /\ outcome.rooms = rooms
                 \/ outcome.error = Null /\ Fresh(outcome.rooms[r])
        /\ \/ SameGame(disconnectOutcome(s).rooms[r], rooms[r])
           \/ /\ sockets[s].roomId = r
              /\ NoHumanIn(disconnectOutcome(s).rooms[r])
              /\ Fresh(disconnectOutcome(s).rooms[r])

\* a finished game, and the move of the player whose turn it is refused
C6_MoveAfterEnd ==
  \E r \in DOMAIN rooms :
    /\ Over(rooms[r])
    /\ \E s \in Requesters :
         \E payload \in MovePayloads :
           /\ TargetOf(s, payload) = r
           /\ CellIndex(payload.index)
           /\ rooms[r].board[payload.index.num] = Null
           /\ \E outcome \in moveOutcomes(s, payload) :
                outcome.error = "Game is finished."

\* C7: between two full resets of a room a cell that is set stays as it is:
\* no step but a full reset empties it or writes the other symbol to it.
C7_SetCellsStay ==
  [][\A r \in DOMAIN rooms :
       \/ FullReset(r)
       \/ \A i \in Cells :
            rooms[r].board[i] # Null => rooms'[r].board[i] = rooms[r].board[i]]_vars

\* a game against the hard bot, two marks of each side on the board
C7_MidGame ==
  \E r \in DOMAIN rooms :
    /\ rooms[r].mode = "bot"
    /\ rooms[r].difficulty = "hard"
    /\ \E i, j \in Cells : i # j /\ rooms[r].board[i] = "X" /\ rooms[r].board[j] = "X"
    /\ \E i, j \in Cells : i # j /\ rooms[r].board[i] = "O" /\ rooms[r].board[j] = "O"

\* a refused request changes no room and creates none, sends its error to
\* the requester alone and broadcasts no state
Private(s, outcome) ==
  outcome.error # Null =>
    /\ outcome.rooms = rooms
    /\ outcome.errorTo = {s}
    /\ outcome.emits = <<>>
    /\ outcome.shown = shown

\* the run has not used up its requests: Next handles one more
Open == Total < MaxRequests

C9_DisconnectResets ==
  [][\A s \in SocketIds :
       Leaves(s) =>
         \A r \in DOMAIN rooms :
           /\ \A symbol \in Symbols :
                rooms[r].players[symbol].id = BOT
                  => rooms'[r].players[symbol] = rooms[r].players[symbol]
           /\ (r = sockets[s].roomId /\ NoHumanIn(rooms'[r])) =>
                /\ rooms'[r].board = emptyBoard
                /\ rooms'[r].boardKeys = {}
                /\ rooms'[r].turn = "X"
                /\ rooms'[r].winner = Null
                /\ rooms'[r].isDraw = FALSE
                /\ rooms'[r].mode = rooms[r].mode
                /\ rooms'[r].difficulty = rooms[r].difficulty
                /\ rooms'[r].botSymbol = rooms[r].botSymbol]_vars

\* one room, joined once as a BotMatch and moved in once; its person has
\* left, the bot is seated still and the board is empty
C9_LeftBotRoom ==
  \E s \in SocketIds :
    /\ sockets[s].status = "closed"
    /\ DOMAIN rooms = {sockets[s].roomId}
    /\ handled = [join |-> 1, move |-> 1, reset |-> 0]
    /\ NoHumanIn(rooms[sockets[s].roomId])
    /\ \E symbol \in Symbols : rooms[sockets[s].roomId].players[symbol].id = BOT
    /\ rooms[sockets[s].roomId].board = emptyBoard

\* the joins with a name
NamedJoins == {payload \in JoinPayloads : sanitize(payload.name, "") # ""}

\* C10: a join with a name to a room where no person is seated succeeds and
\* starts a fresh game in the mode it asks for. BotMatch: the bot holds the
\* seat opposite the preferred symbol with the difficulty asked for, the
\* requester holds the preferred symbol, and the board is empty with turn X,
\* or holds the one opening mark of a bot seated X with turn O. PvP: no bot
\* is seated and the requester holds X on an empty board.
C10_JoinStartsFresh ==
  \A s \in Requesters :
    \A payload \in NamedJoins :
      (~Has(rooms, Asked(payload)) \/ NoHumanIn(rooms[Asked(payload)])) =>
        \A outcome \in joinOutcomes(s, payload) :
          LET room == outcome.rooms[Asked(payload)]
              mine == Preferred(payload)
              bots == IF mine = "X" THEN "O" ELSE "X"
              level == IF payload.difficulty = Str("hard") THEN "hard"
                       ELSE "easy"
          IN /\ outcome.error = Null
             /\ Fresh(room)
             /\ outcome.sockets[s].roomId = Asked(payload)
             /\ IF payload.mode = Str("bot")
                THEN /\ room.mode = "bot"
                     /\ room.difficulty = level
                     /\ room.botSymbol = bots
                     /\ room.players[bots].id = BOT
                     /\ room.players[mine].id = s
                     /\ outcome.symbol = mine
                     /\ outcome.sockets[s].symbol = mine
                     /\ IF bots = "X"
                        THEN Cardinality(Marks(room.board)) = 1 /\ room.turn = "O"
                        ELSE room.board = emptyBoard /\ room.turn = "X"
                ELSE /\ room.mode = "pvp"
                     /\ \A symbol \in Symbols : room.players[symbol].id # BOT
                     /\ room.players.X.id = s
                     /\ outcome.symbol = "X"
                     /\ outcome.sockets[s].symbol = "X"
                     /\ room.board = emptyBoard
                     /\ room.turn = "X"

\* a room where a bot is seated, no person is, and marks are on the board
C10_MarkedEmptyRoom ==
  \E r \in DOMAIN rooms :
    /\ NoHumanIn(rooms[r])
    /\ \E symbol \in Symbols : rooms[r].players[symbol].id = BOT
    /\ Marks(rooms[r].board) # {}
    /\ Requesters # {}

\* the mode a join asks for
Wanted(payload) == IF payload.mode = Str("bot") THEN "bot" ELSE "pvp"

\* C11: a join with a name to a room where a person is seated and whose
\* mode is not the one asked for is refused with "Room mode does not
\* match."; no room and no binding changes.
C11_ModeMismatchRefused ==
  \A s \in Requesters :
    \A payload \in NamedJoins :
      (/\ Has(rooms, Asked(payload))
       /\ ~NoHumanIn(rooms[Asked(payload)])
       /\ rooms[Asked(payload)].mode # Wanted(payload)) =>
        \A outcome \in joinOutcomes(s, payload) :
          /\ outcome.error = "Room mode does not match."
          /\ outcome.rooms = rooms
          /\ outcome.sockets = sockets

\* a PvP room and a BotMatch room, a person seated in each, marks on a board
C11_BothModes ==
  /\ \E r \in DOMAIN rooms : rooms[r].mode = "pvp" /\ ~NoHumanIn(rooms[r])
  /\ \E r \in DOMAIN rooms :
       /\ rooms[r].mode = "bot"
       /\ ~NoHumanIn(rooms[r])
       /\ Marks(rooms[r].board) # {}
  /\ Requesters # {}

\* the PvP joins with a name
PvpJoins == {payload \in NamedJoins : Wanted(payload) = "pvp"}

\* C12: a PvP join with a name to a PvP room where a person is seated takes
\* seat X when X is empty, else seat O when O is empty, and leaves the
\* other seat as it is; when neither is empty it is refused with "Room is
\* full." and changes nothing.
C12_FirstFreeSeat ==
  \A s \in Requesters :
    \A payload \in PvpJoins :
      (/\ Has(rooms, Asked(payload))
       /\ ~NoHumanIn(rooms[Asked(payload)])
       /\ rooms[Asked(payload)].mode = "pvp") =>
        \A outcome \in joinOutcomes(s, payload) :
          LET before == rooms[Asked(payload)].players
              after == outcome.rooms[Asked(payload)].players
          IN IF before.X.id = Null
             THEN /\ outcome.error = Null
                  /\ outcome.symbol = "X"
                  /\ after.X.id = s
                  /\ after.O = before.O
             ELSE IF before.O.id = Null
             THEN /\ outcome.error = Null
                  /\ outcome.symbol = "O"
                  /\ after.O.id = s
                  /\ after.X = before.X
             ELSE /\ outcome.error = "Room is full."
                  /\ outcome.rooms = rooms

\* a PvP room with a person in seat O and seat X empty
C12_OnlyOSeated ==
  \E r \in DOMAIN rooms :
    /\ rooms[r].mode = "pvp"
    /\ rooms[r].players.X.id = Null
    /\ HumanIn(rooms[r], "O")
    /\ Requesters # {}

\* a BotMatch room seats the bot in exactly the seat botSymbol names; a PvP
\* room seats no bot and names no botSymbol
Configured(room) ==
  IF room.mode = "bot"
  THEN /\ room.botSymbol \in Symbols
       /\ \A symbol \in Symbols :
            room.players[symbol].id = BOT <=> symbol = room.botSymbol
  ELSE /\ room.mode = "pvp"
       /\ room.botSymbol = Null
       /\ \A symbol \in Symbols : room.players[symbol].id # BOT

\* C13: after every step, a BotMatch room has exactly one seat held by the
\* bot, the seat botSymbol names, and a PvP room has no bot and no
\* botSymbol; the difficulty of a room changes only in a join that arrives
\* while no person is seated.
C13_BotSeatAndDifficulty ==
  [][\A r \in DOMAIN rooms' :
       /\ Configured(rooms'[r])
       /\ (r \in DOMAIN rooms /\ rooms'[r].difficulty # rooms[r].difficulty)
            => handled'.join > handled.join /\ NoHumanIn(rooms[r])]_vars

\* one room, joined twice: a hard BotMatch now, a person playing
C13_Reconfigured ==
  \E r \in DOMAIN rooms :
    /\ DOMAIN rooms = {r}
    /\ handled.join = 2
    /\ rooms[r].mode = "bot"
    /\ rooms[r].difficulty = "hard"
    /\ ~NoHumanIn(rooms[r])

\* C14: an honored reset request leaves the mode, difficulty, botSymbol and
\* both seats of its room as they are and starts a new game: no outcome,
\* and an empty board with turn X, or, when the bot is seated X, the bot's
\* one opening mark with turn O.
C14_ResetKeepsConfiguration ==
  \A s \in Requesters :
    \A payload \in ResetPayloads :
      \A outcome \in resetOutcomes(s, payload) :
        outcome.error = Null =>
          LET before == rooms[TargetOf(s, payload)]
              after == outcome.rooms[TargetOf(s, payload)]
          IN /\ after.mode = before.mode
             /\ after.difficulty = before.difficulty
             /\ after.botSymbol = before.botSymbol
             /\ after.players = before.players
             /\ after.winner = Null
             /\ after.isDraw = FALSE
             /\ after.boardKeys = {}
             /\ IF before.players.X.id = BOT
                THEN /\ after.turn = "O"
                     /\ \E i \in Cells :
                          after.board = [emptyBoard EXCEPT ![i] = "X"]
                ELSE after.turn = "X" /\ after.board = emptyBoard

\* a BotMatch room with the bot seated X and both symbols on the board, its
\* person connected
C14_BotXMidGame ==
  \E r \in DOMAIN rooms :
    /\ rooms[r].players.X.id = BOT
    /\ \E i \in Cells : rooms[r].board[i] = "O"
    /\ \E s \in Requesters :
         rooms[r].players.O.id = s /\ sockets[s].roomId = r

\* C15: between handlers, the snapshot last broadcast to a room is the
\* room's current board, turn, players, winner, isDraw, mode and
\* difficulty, for every room of the registry.
C15_SnapshotIsCurrent ==
  \A r \in DOMAIN rooms :
    /\ r \in DOMAIN shown
    /\ shown[r].board = rooms[r].board
    /\ shown[r].turn = rooms[r].turn
    /\ shown[r].players = rooms[r].players
    /\ shown[r].winner = rooms[r].winner
    /\ shown[r].isDraw = rooms[r].isDraw
    /\ shown[r].mode = rooms[r].mode
    /\ shown[r].difficulty = rooms[r].difficulty

\* a BotMatch room after a person's move and the bot's reply, and a second
\* room
C15_AfterBotReply ==
  \E r \in DOMAIN rooms :
    /\ rooms[r].mode = "bot"
    /\ \E i, j \in Cells : rooms[r].board[i] = "X" /\ rooms[r].board[j] = "O"
    /\ r \in DOMAIN shown
    /\ shown[r].board = rooms[r].board
    /\ DOMAIN rooms # {r}

\* C16: no two connected connections hold bindings that name the same room
\* and the same symbol.
C16_NoSharedBinding ==
  \A s, t \in Requesters :
    (s # t /\ sockets[s].roomId # Undefined
       /\ sockets[s].roomId = sockets[t].roomId)
      => sockets[s].symbol # sockets[t].symbol

\* two connected connections bound to one room, with different symbols
C16_TwoInOneRoom ==
  \E s, t \in Requesters :
    /\ s # t
    /\ sockets[s].roomId # Undefined
    /\ sockets[s].roomId = sockets[t].roomId
    /\ sockets[s].symbol = "X"
    /\ sockets[t].symbol = "O"

\* the other symbol
Opponent(symbol) == IF symbol = "X" THEN "O" ELSE "X"

\* C17: a game starts with X to move, and every accepted move is made by
\* the symbol whose turn it is; the bot's reply in the same handler is made
\* by the other symbol; after the handler's last move the turn is with the
\* other symbol if the game is undecided and with the last mover if that
\* move decided it.
C17_MovesAlternate ==
  /\ \A r \in DOMAIN rooms :
       (rooms[r].board = emptyBoard /\ rooms[r].boardKeys = {}) =>
         rooms[r].turn = "X" /\ ~Over(rooms[r])
  /\ \A s \in Requesters :
       \A payload \in GameMovePayloads :
         \A outcome \in moveOutcomes(s, payload) :
           outcome.error = Null =>
             LET before == rooms[TargetOf(s, payload)]
                 after == outcome.rooms[TargetOf(s, payload)]
                 mover == sockets[s].symbol
                 replied == Len(outcome.emits) = 2
                 last == IF replied THEN Opponent(mover) ELSE mover
             IN /\ mover = before.turn
                /\ replied => before.botSymbol = Opponent(mover)
                /\ \A i \in Cells :
                     after.board[i] # before.board[i] =>
                       /\ before.board[i] = Null
                       /\ after.board[i] \in {mover, last}
                /\ after.turn = IF Over(after) THEN last ELSE Opponent(last)

\* a game the hard bot has won, the turn left with the bot, and a game in
\* another room
C17_DecidedByBot ==
  \E r \in DOMAIN rooms :
    /\ rooms[r].mode = "bot"
    /\ rooms[r].winner = rooms[r].botSymbol
    /\ rooms[r].turn = rooms[r].botSymbol
    /\ DOMAIN rooms # {r}

\* C18: every seat held by a person is held by a connected connection whose
\* binding names that room and that symbol.
C18_SeatsMatchBindings ==
  \A r \in DOMAIN rooms :
    \A symbol \in Symbols :
      HumanIn(rooms[r], symbol) =>
        LET s == rooms[r].players[symbol].id
        IN /\ sockets[s].status = "connected"
           /\ sockets[s].roomId = r
           /\ sockets[s].symbol = symbol

\* the marks of a symbol on a board
MarksOf(board, symbol) == Cardinality({i \in Cells : board[i] = symbol})

\* C19: on every board the X marks are as many as the O marks or one more,
\* and while the game is undecided the turn is X exactly when they are as
\* many.
C19_MarksBalanced ==
  \A r \in DOMAIN rooms :
    LET xs == MarksOf(rooms[r].board, "X")
        os == MarksOf(rooms[r].board, "O")
    IN /\ xs - os \in {0, 1}
       /\ ~Over(rooms[r]) => (rooms[r].turn = "X" <=> xs = os)

\* C20: in a BotMatch room with a person seated and the game undecided, the
\* turn is not the bot's: it is the symbol of the person's seat.
C20_BotNeverWaits ==
  \A r \in DOMAIN rooms :
    (rooms[r].mode = "bot" /\ ~NoHumanIn(rooms[r]) /\ ~Over(rooms[r])) =>
      /\ rooms[r].turn # rooms[r].botSymbol
      /\ HumanIn(rooms[r], rooms[r].turn)

\* a BotMatch game under way: a person seated, marks of both, undecided
C20_BotGameUnderWay ==
  \E r \in DOMAIN rooms :
    /\ rooms[r].mode = "bot"
    /\ ~NoHumanIn(rooms[r])
    /\ ~Over(rooms[r])
    /\ \E i, j \in Cells : rooms[r].board[i] = "X" /\ rooms[r].board[j] = "O"
    /\ handled.reset = 1
=============================================================================
